---- MODULE Spec2Model ----
(***************************************************************************)
(* InitServiceMixin (acestep/core/generation/handler/init_service.py):     *)
(* device normalisation, capability probes, accelerator memory/sync        *)
(* dispatch and the checkpoint scan, as a state machine.                   *)
(*                                                                         *)
(* Python strings are sequences of one-character strings, so that          *)
(* str.split, str.startswith, os.path.join and list.sort are computed      *)
(* character by character.  Python values carry a tag t.                   *)
(***************************************************************************)
EXTENDS Integers, Sequences, FiniteSets, TLC

VARIABLES
    device,            \* self.device: a str, a torch.device handle, or None
    config,            \* self.config: None or an object with optional is_turbo
    cuda_is_available, \* torch.cuda.is_available()
    cuda_allocated,    \* what torch.cuda.memory_allocated() reports
    cuda_peak,         \* what torch.cuda.max_memory_allocated() reports
    has_xpu,           \* hasattr(torch, "xpu")
    xpu_is_available,  \* torch.xpu.is_available()
    has_backends_mps,  \* hasattr(torch.backends, "mps")
    mps_is_available,  \* torch.backends.mps.is_available()
    has_torch_mps,     \* the command module torch.mps exists
    flash_attn,        \* what "import flash_attn" does: "ok" or the exception class
    project_root,      \* self._get_project_root()
    ckpt_exists,       \* os.path.exists(<project_root>/checkpoints)
    entries,           \* name -> "none" | "file" | "dir" inside checkpoints/
    op,                \* the operation that ran last
    arg,               \* its argument (the device override), None otherwise
    ret,               \* its outcome: a returned value or a raised exception
    calls,             \* the accelerator driver calls it issued, in order
    prev_models        \* the outcome of the model scan before the last one

handler == <<device, config>>
torch   == <<cuda_is_available, cuda_allocated, cuda_peak, has_xpu, xpu_is_available,
             has_backends_mps, mps_is_available, has_torch_mps, flash_attn>>
disk    == <<project_root, ckpt_exists, entries>>
vars    == <<handler, torch, disk, op, arg, ret, calls, prev_models>>

----------------------------------------------------------------------------
(* Bounds of the model. *)
MaxIndex   == 0   \* device indices 0..MaxIndex ("cuda:0", torch.device("cuda", 0))
MaxBytes   == 1   \* allocation figures 0..MaxBytes
MaxEntries == 3   \* at most this many entries inside checkpoints/

----------------------------------------------------------------------------
(* Python values. *)
None       == [t |-> "None"]
Str(s)     == [t |-> "str", v |-> s]
PyBool(b)  == [t |-> "bool", v |-> b]
PyInt(n)   == [t |-> "int", v |-> n]
PyList(l)  == [t |-> "list", v |-> l]
\* torch.device(type, index); index = -1 stands for "no index"
Device(ty, ix) == [t |-> "device", type |-> ty, index |-> ix]

Return(v)  == [kind |-> "return", val |-> v]
Raise(e)   == [kind |-> "raise", exc |-> e]
NoOutcome  == [kind |-> "none"]

s_cuda == <<"c","u","d","a">>
s_xpu  == <<"x","p","u">>
s_mps  == <<"m","p","s">>
s_cpu  == <<"c","p","u">>
s_auto == <<"a","u","t","o">>
s_tpu  == <<"t","p","u">>

Digit(n) == CASE n = 0 -> "0" [] n = 1 -> "1" [] n = 2 -> "2" [] n = 3 -> "3"
              [] n = 4 -> "4" [] n = 5 -> "5" [] n = 6 -> "6" [] n = 7 -> "7"
              [] n = 8 -> "8" [] n = 9 -> "9"

RECURSIVE Decimal(_)
Decimal(n) == IF n < 10 THEN <<Digit(n)>> ELSE Decimal(n \div 10) \o <<Digit(n % 10)>>

\* str(x): a str is itself, a torch.device prints as type or type:index
PyStr(x) ==
    CASE x.t = "str"    -> x.v
      [] x.t = "device" -> IF x.index < 0 THEN x.type
                           ELSE x.type \o <<":">> \o Decimal(x.index)
      [] x.t = "None"   -> <<"N","o","n","e">>

\* bool(x) as "or" applies it: None and "" are false, any other object true
Truthy(x) ==
    CASE x.t = "None" -> FALSE
      [] x.t = "str"  -> x.v # <<>>
      [] OTHER        -> TRUE

\* s.split(sep, 1)[0]: everything before the first sep, all of s without one
SplitHead(s, sep) ==
    IF \E i \in 1..Len(s) : s[i] = sep
    THEN LET i == CHOOSE k \in 1..Len(s) : s[k] = sep /\ \A j \in 1..(k-1) : s[j] # sep
         IN  SubSeq(s, 1, i - 1)
    ELSE s

StartsWith(s, p) == Len(s) >= Len(p) /\ SubSeq(s, 1, Len(p)) = p

----------------------------------------------------------------------------
(* The values the host can hold. *)
Indexed(ty) == { ty \o <<":">> \o Decimal(i) : i \in 0..MaxIndex }

DeviceStrings ==
    {<<>>, s_cuda, s_xpu, s_mps, s_cpu, s_auto, s_tpu} \cup Indexed(s_cuda) \cup Indexed(s_xpu)

DeviceHandles ==
    { Device(ty, ix) : ty \in {s_cuda, s_xpu, s_mps, s_cpu}, ix \in (-1)..MaxIndex }

DeviceValues == {None} \cup { Str(s) : s \in DeviceStrings } \cup DeviceHandles

\* the device argument of is_flash_attention_available: Optional[str]
Overrides == {None} \cup { Str(s) : s \in {<<>>, s_cuda, s_xpu, s_auto} \cup Indexed(s_cuda) }

\* self.config: None, an object without is_turbo, or one with the flag
ConfigValues == {None, [t |-> "config", attrs |-> {}]}
                \cup { [t |-> "config", attrs |-> {"is_turbo"}, is_turbo |-> b] : b \in BOOLEAN }

FlashAttnImports == {"ok", "ModuleNotFoundError", "ImportError", "RuntimeError"}

\* issubclass(exc, ImportError)
IsImportError(exc) == exc \in {"ImportError", "ModuleNotFoundError"}

----------------------------------------------------------------------------
(* Accelerator driver calls. *)
Call(backend, fn) == <<backend, fn>>

\* what an operation leaves behind: its outcome and the driver calls it made
Effect(out, issued) == [out |-> out, calls |-> issued]

----------------------------------------------------------------------------
(* _device_type: self.device if it is a str, else self.device.type.  None has
   no attribute "type". *)
device_type ==
    CASE device.t = "str"    -> Return(Str(device.v))
      [] device.t = "device" -> Return(Str(device.type))
      [] OTHER               -> Raise("AttributeError")

\* device_type == "cuda" and the like, once _device_type has returned
IsType(dt, s) == dt.val = Str(s)

(* _empty_cache *)
empty_cache ==
    LET dt == device_type IN
    IF dt.kind = "raise" THEN Effect(dt, <<>>)
    ELSE IF IsType(dt, s_cuda) /\ cuda_is_available
         THEN Effect(Return(None), <<Call("cuda", "empty_cache")>>)
    ELSE IF IsType(dt, s_xpu) /\ has_xpu /\ xpu_is_available
         THEN Effect(Return(None), <<Call("xpu", "empty_cache")>>)
    ELSE IF IsType(dt, s_mps) /\ has_backends_mps /\ mps_is_available
         THEN IF has_torch_mps
              THEN Effect(Return(None), <<Call("mps", "empty_cache")>>)
              ELSE Effect(Raise("AttributeError"), <<>>)
    ELSE Effect(Return(None), <<>>)

(* _synchronize *)
synchronize ==
    LET dt == device_type IN
    IF dt.kind = "raise" THEN Effect(dt, <<>>)
    ELSE IF IsType(dt, s_cuda) /\ cuda_is_available
         THEN Effect(Return(None), <<Call("cuda", "synchronize")>>)
    ELSE IF IsType(dt, s_xpu) /\ has_xpu /\ xpu_is_available
         THEN Effect(Return(None), <<Call("xpu", "synchronize")>>)
    ELSE IF IsType(dt, s_mps) /\ has_backends_mps /\ mps_is_available
         THEN IF has_torch_mps
              THEN Effect(Return(None), <<Call("mps", "synchronize")>>)
              ELSE Effect(Raise("AttributeError"), <<>>)
    ELSE Effect(Return(None), <<>>)

(* _memory_allocated *)
memory_allocated ==
    LET dt == device_type IN
    IF dt.kind = "raise" THEN Effect(dt, <<>>)
    ELSE IF IsType(dt, s_cuda) /\ cuda_is_available
         THEN Effect(Return(PyInt(cuda_allocated)), <<Call("cuda", "memory_allocated")>>)
    ELSE Effect(Return(PyInt(0)), <<>>)

(* _max_memory_allocated *)
max_memory_allocated ==
    LET dt == device_type IN
    IF dt.kind = "raise" THEN Effect(dt, <<>>)
    ELSE IF IsType(dt, s_cuda) /\ cuda_is_available
         THEN Effect(Return(PyInt(cuda_peak)), <<Call("cuda", "max_memory_allocated")>>)
    ELSE Effect(Return(PyInt(0)), <<>>)

----------------------------------------------------------------------------
(* is_flash_attention_available *)

\* str(device or self.device or "auto").split(":", 1)[0]
target_device(override) ==
    LET chosen == IF Truthy(override) THEN override
                  ELSE IF Truthy(device) THEN device
                  ELSE Str(s_auto)
    IN  SplitHead(PyStr(chosen), ":")

\* try: import flash_attn; return True / except ImportError: return False
\* the import without its try/except
import_flash_attn_uncaught ==
    IF flash_attn = "ok" THEN Return(PyBool(TRUE)) ELSE Raise(flash_attn)

import_flash_attn ==
    IF flash_attn = "ok" THEN Return(PyBool(TRUE))
    ELSE IF IsImportError(flash_attn) THEN Return(PyBool(FALSE))
    ELSE Raise(flash_attn)

\* the probe with the device gate of the non-auto branch left out
is_flash_attention_available_ungated(override) ==
    IF ~cuda_is_available THEN Return(PyBool(FALSE)) ELSE import_flash_attn

is_flash_attention_available(override) ==
    LET target == target_device(override) IN
    IF target = s_auto
    THEN IF ~cuda_is_available THEN Return(PyBool(FALSE)) ELSE import_flash_attn
    ELSE IF target # s_cuda \/ ~cuda_is_available THEN Return(PyBool(FALSE))
         ELSE import_flash_attn

----------------------------------------------------------------------------
(* is_turbo_model *)
\* getattr with the default flipped
is_turbo_model_default_true ==
    IF config.t = "None" THEN Return(PyBool(FALSE))
    ELSE IF "is_turbo" \in config.attrs THEN Return(PyBool(config.is_turbo))
    ELSE Return(PyBool(TRUE))

is_turbo_model ==
    IF config.t = "None" THEN Return(PyBool(FALSE))
    ELSE IF "is_turbo" \in config.attrs THEN Return(PyBool(config.is_turbo))
    ELSE Return(PyBool(FALSE))

----------------------------------------------------------------------------
(* The checkpoint directory. *)
s_checkpoints == <<"c","h","e","c","k","p","o","i","n","t","s">>

\* "acestep-v15-"
Prefix == <<"a","c","e","s","t","e","p","-","v","1","5","-">>

n_base  == Prefix \o <<"b","a","s","e">>
n_turbo == Prefix \o <<"t","u","r","b","o">>
n_xl    == Prefix \o <<"X","L">>
n_short == <<"a","c","e","s","t","e","p","-","v","1","5">>
n_vae   == <<"v","a","e">>

NamePool == {n_base, n_turbo, n_xl, n_short, n_vae}

\* ord(c) of the characters in use
Ord == [c \in {"-","1","5","L","X","a","b","c","e","o","p","r","s","t","u","v"} |->
          CASE c = "-" -> 45  [] c = "1" -> 49  [] c = "5" -> 53  [] c = "L" -> 76
            [] c = "X" -> 88  [] c = "a" -> 97  [] c = "b" -> 98  [] c = "c" -> 99
            [] c = "e" -> 101 [] c = "o" -> 111 [] c = "p" -> 112 [] c = "r" -> 114
            [] c = "s" -> 115 [] c = "t" -> 116 [] c = "u" -> 117 [] c = "v" -> 118]

\* a < b on str: code point by code point, a proper prefix first
RECURSIVE StrLess(_, _)
StrLess(a, b) ==
    IF b = <<>> THEN FALSE
    ELSE IF a = <<>> THEN TRUE
    ELSE IF Ord[Head(a)] < Ord[Head(b)] THEN TRUE
    ELSE IF Ord[Head(a)] > Ord[Head(b)] THEN FALSE
    ELSE StrLess(Tail(a), Tail(b))

\* list.sort()
RECURSIVE Insert(_, _)
Insert(x, l) ==
    IF l = <<>> THEN <<x>>
    ELSE IF StrLess(x, Head(l)) THEN <<x>> \o l
    ELSE <<Head(l)>> \o Insert(x, Tail(l))

RECURSIVE Sort(_)
Sort(l) == IF l = <<>> THEN <<>> ELSE Insert(Head(l), Sort(Tail(l)))

\* os.path.join(a, b) for a relative b
PathJoin(a, b) ==
    IF a = <<>> THEN b
    ELSE IF a[Len(a)] = "/" THEN a \o b
    ELSE a \o <<"/">> \o b

checkpoint_dir == PathJoin(project_root, s_checkpoints)

Present == { n \in NamePool : entries[n] # "none" }

\* os.listdir(checkpoint_dir): every entry once, in an order the OS picks
ListDir ==
    { l \in [1..Cardinality(Present) -> Present] :
        \A i, j \in 1..Cardinality(Present) : i # j => l[i] # l[j] }

\* os.path.isdir(os.path.join(checkpoint_dir, item))
IsDir(item) == entries[item] = "dir"

(* get_available_checkpoints *)
get_available_checkpoints ==
    IF ckpt_exists THEN Return(PyList(<<checkpoint_dir>>)) ELSE Return(PyList(<<>>))

\* the loop over os.listdir: keep prefixed directories, in listing order
RECURSIVE Collect(_)
Collect(listing) ==
    IF listing = <<>> THEN <<>>
    ELSE IF IsDir(Head(listing)) /\ StartsWith(Head(listing), Prefix)
         THEN <<Head(listing)>> \o Collect(Tail(listing))
         ELSE Collect(Tail(listing))

\* the most recent model scan so far
LastScan == IF op = "get_available_acestep_v15_models" THEN ret ELSE prev_models

\* the scan without models.sort()
get_available_acestep_v15_models_unsorted(listing) ==
    IF ckpt_exists THEN Return(PyList(Collect(listing))) ELSE Return(PyList(<<>>))

\* the scan answering from the previous scan when there is one
get_available_acestep_v15_models_cached(listing) ==
    IF LastScan.kind = "return" THEN LastScan
    ELSE IF ckpt_exists THEN Return(PyList(Sort(Collect(listing))))
    ELSE Return(PyList(<<>>))

(* get_available_acestep_v15_models, given what os.listdir returns *)
get_available_acestep_v15_models(listing) ==
    IF ckpt_exists THEN Return(PyList(Sort(Collect(listing))))
    ELSE Return(PyList(Sort(<<>>)))

----------------------------------------------------------------------------
(* Initial states. *)
InitTorch ==
    /\ cuda_is_available \in BOOLEAN
    /\ cuda_peak \in 0..MaxBytes
    /\ cuda_allocated \in 0..cuda_peak
    /\ (~cuda_is_available => cuda_peak = 0)
    /\ has_xpu \in BOOLEAN
    /\ xpu_is_available \in BOOLEAN
    /\ (xpu_is_available => has_xpu)
    /\ has_backends_mps \in BOOLEAN
    /\ mps_is_available \in BOOLEAN
    /\ (mps_is_available => has_backends_mps)
    /\ has_torch_mps \in BOOLEAN
    /\ flash_attn \in FlashAttnImports

InitDisk ==
    /\ project_root \in {<<"/">>, <<"/","p">>}
    /\ ckpt_exists \in BOOLEAN
    /\ entries = [n \in NamePool |-> "none"]

InitCall ==
    /\ op = "init"
    /\ arg = None
    /\ ret = NoOutcome
    /\ calls = <<>>
    /\ prev_models = NoOutcome

\* accelerator side: any device, any torch build; nothing on disk
Init ==
    /\ device \in DeviceValues
    /\ config = None
    /\ InitTorch
    /\ project_root = <<"/","p">>
    /\ ckpt_exists = FALSE
    /\ entries = [n \in NamePool |-> "none"]
    /\ InitCall

\* model side: any configuration, any project root; a CPU-only torch
InitModels ==
    /\ device = Str(s_cpu)
    /\ config \in ConfigValues
    /\ cuda_is_available = FALSE /\ cuda_allocated = 0 /\ cuda_peak = 0
    /\ has_xpu = FALSE /\ xpu_is_available = FALSE
    /\ has_backends_mps = FALSE /\ mps_is_available = FALSE /\ has_torch_mps = FALSE
    /\ flash_attn = "ModuleNotFoundError"
    /\ InitDisk
    /\ InitCall

----------------------------------------------------------------------------
(* One call of an operation of the mixin: it reads the host and leaves its
   outcome and the driver calls it made. *)
Do(name, a, eff) ==
    /\ op' = name
    /\ arg' = a
    /\ ret' = eff.out
    /\ calls' = eff.calls
    /\ prev_models' = LastScan
    /\ UNCHANGED <<handler, torch, disk>>

DeviceType    == Do("_device_type", None, Effect(device_type, <<>>))
EmptyCache    == Do("_empty_cache", None, empty_cache)
Synchronize   == Do("_synchronize", None, synchronize)
MemoryAllocated    == Do("_memory_allocated", None, memory_allocated)
MaxMemoryAllocated == Do("_max_memory_allocated", None, max_memory_allocated)
IsFlashAttentionAvailable ==
    \E o \in Overrides :
        Do("is_flash_attention_available", o, Effect(is_flash_attention_available(o), <<>>))
IsTurboModel  == Do("is_turbo_model", None, Effect(is_turbo_model, <<>>))
GetAvailableCheckpoints ==
    Do("get_available_checkpoints", None, Effect(get_available_checkpoints, <<>>))
GetAvailableAcestepV15Models ==
    \E listing \in ListDir :
        Do("get_available_acestep_v15_models", None,
           Effect(get_available_acestep_v15_models(listing), <<>>))

(* The filesystem changes under the mixin between calls. *)
Fs(name, a) ==
    /\ op' = name
    /\ arg' = a
    /\ ret' = NoOutcome
    /\ calls' = <<>>
    /\ prev_models' = LastScan
    /\ UNCHANGED <<handler, torch, project_root>>

MakeCheckpointDir ==
    /\ ~ckpt_exists
    /\ ckpt_exists' = TRUE
    /\ UNCHANGED entries
    /\ Fs("mkdir checkpoints", None)

RemoveCheckpointDir ==
    /\ ckpt_exists
    /\ ckpt_exists' = FALSE
    /\ entries' = [n \in NamePool |-> "none"]
    /\ Fs("rm -r checkpoints", None)

AddEntry ==
    /\ ckpt_exists
    /\ Cardinality(Present) < MaxEntries
    /\ \E n \in NamePool \ Present, k \in {"file", "dir"} :
          /\ entries' = [entries EXCEPT ![n] = k]
          /\ Fs("add entry", Str(n))
    /\ UNCHANGED ckpt_exists

RemoveEntry ==
    /\ \E n \in Present :
          /\ entries' = [entries EXCEPT ![n] = "none"]
          /\ Fs("remove entry", Str(n))
    /\ UNCHANGED ckpt_exists

Next ==
    \/ DeviceType
    \/ EmptyCache
    \/ Synchronize
    \/ MemoryAllocated
    \/ MaxMemoryAllocated
    \/ IsFlashAttentionAvailable

NextModels ==
    \/ IsTurboModel
    \/ GetAvailableCheckpoints
    \/ GetAvailableAcestepV15Models
    \/ MakeCheckpointDir
    \/ RemoveCheckpointDir
    \/ AddEntry
    \/ RemoveEntry

Spec == Init /\ [][Next]_vars

SpecModels == InitModels /\ [][NextModels]_vars

----------------------------------------------------------------------------
(* Vocabulary of the properties. *)

\* the documented resolution: a handle's type, a string up to its first ":",
\* "auto" for an empty or absent device
Resolve(d) ==
    CASE d.t = "device" -> d.type
      [] d.t = "str"    -> IF d.v = <<>> THEN s_auto ELSE SplitHead(d.v, ":")
      [] OTHER          -> s_auto

Canonical == {s_cuda, s_xpu, s_mps, s_cpu, s_auto}

\* the backend reports itself ready
Ready(b) ==
    CASE b = s_cuda -> cuda_is_available
      [] b = s_xpu  -> has_xpu /\ xpu_is_available
      [] b = s_mps  -> has_backends_mps /\ mps_is_available
      [] OTHER      -> FALSE

BackendOf(b) == CASE b = s_cuda -> "cuda" [] b = s_xpu -> "xpu" [] b = s_mps -> "mps"

\* the effective device tag of the flash-attention probe that ran last
Given(x) == x # None /\ x # Str(<<>>)
EffectiveTag ==
    Resolve(IF Given(arg) THEN arg ELSE IF Given(device) THEN device ELSE Str(s_auto))

CudaTarget == EffectiveTag \in {s_cuda, s_auto} /\ cuda_is_available

Elems(l) == { l[i] : i \in 1..Len(l) }

HasPrefix(n) == Len(n) >= Len(Prefix) /\ \A i \in 1..Len(Prefix) : n[i] = Prefix[i]

\* a sorts strictly before b: at the first position where they differ a has
\* the smaller code point, or a ends there
LexBefore(a, b) ==
    \E k \in 1..(Len(b)) :
        /\ \A i \in 1..(k-1) : i <= Len(a) /\ a[i] = b[i]
        /\ (k = Len(a) + 1 \/ (k <= Len(a) /\ Ord[a[k]] < Ord[b[k]]))

ModelDirs == { n \in NamePool : ckpt_exists /\ entries[n] = "dir" /\ HasPrefix(n) }

Ran(name) == op = name

----------------------------------------------------------------------------
(* C1: _empty_cache and _synchronize issue exactly one driver call, the
   resolved backend's cache-clear (resp. synchronize), when the handler's
   device resolves to cuda, xpu or mps and that backend is ready, and no
   driver call in every other case. *)
C1_DispatchExactlyOne ==
    \A cmd \in {"empty_cache", "synchronize"} :
        Ran("_" \o cmd) =>
            IF Resolve(device) \in {s_cuda, s_xpu, s_mps} /\ Ready(Resolve(device))
            THEN calls = <<Call(BackendOf(Resolve(device)), cmd)>>
            ELSE calls = <<>>

(* C2: _device_type resolves the handler's device as the flash-attention
   probe does: a string up to its first ":", "auto" for an empty or absent
   device, a handle's type; so the operations agree on the backend. *)
C2_ResolutionAgrees ==
    Ran("_device_type") =>
        /\ ret = Return(Str(Resolve(device)))
        /\ ret = Return(Str(target_device(None)))

(* C3: resolution never raises and returns one of cuda, xpu, mps, cpu,
   auto for every device the handler can hold. *)
C3_ResolutionTotal ==
    Ran("_device_type") => ret.kind = "return" /\ ret.val.v \in Canonical

(* C4: no exception escapes _empty_cache, _synchronize, _memory_allocated
   or _max_memory_allocated, whatever the device and the torch build. *)
C4_NoExceptionEscapes ==
    op \in {"_empty_cache", "_synchronize", "_memory_allocated", "_max_memory_allocated"}
        => ret.kind = "return"

(* C5, as claimed: is_flash_attention_available returns true when the
   effective tag is cuda or auto, CUDA is ready and flash_attn imports,
   and returns false in every other case. *)
C5_FlashTrueExactlyWhen ==
    Ran("is_flash_attention_available") =>
        ret = Return(PyBool(CudaTarget /\ flash_attn = "ok"))

(* C5, amended: as claimed, except that when the effective tag is cuda or
   auto, CUDA is ready and importing flash_attn raises something other than
   an ImportError, that exception leaves the probe instead of false. *)
C5_FlashTrueExactlyWhenImportErrorOnly ==
    Ran("is_flash_attention_available") =>
        IF CudaTarget /\ flash_attn \notin {"ok", "ImportError", "ModuleNotFoundError"}
        THEN ret = Raise(flash_attn)
        ELSE ret = Return(PyBool(CudaTarget /\ flash_attn = "ok"))

\* an override "cuda:0" on an xpu handler with CUDA ready and flash_attn installed
C5_Witness ==
    /\ Ran("is_flash_attention_available")
    /\ device = Str(s_xpu) /\ xpu_is_available
    /\ arg = Str(s_cuda \o <<":", "0">>)
    /\ ret = Return(PyBool(TRUE))

(* C6, as claimed: with a cuda or auto target and CUDA ready, any failure of
   the flash_attn import makes the probe return false. *)
C6_ProbeFailureAbsorbed ==
    (Ran("is_flash_attention_available") /\ CudaTarget /\ flash_attn # "ok")
        => ret = Return(PyBool(FALSE))

(* C6, amended: with a cuda or auto target and CUDA ready, a failure of the
   import that is an ImportError (the module missing, or present and failing
   to load with ImportError) makes the probe return false; an exception of
   any other class leaves the probe. *)
C6_ImportErrorAbsorbed ==
    (Ran("is_flash_attention_available") /\ CudaTarget /\ flash_attn # "ok")
        => IF flash_attn \in {"ImportError", "ModuleNotFoundError"}
           THEN ret = Return(PyBool(FALSE))
           ELSE ret = Raise(flash_attn)

\* a flash_attn that is present and fails to load, probed on a ready cuda device
C6_Witness ==
    /\ Ran("is_flash_attention_available")
    /\ device = Str(s_cuda) /\ arg = None /\ cuda_is_available
    /\ flash_attn = "ImportError"
    /\ ret = Return(PyBool(FALSE))

(* C7: _memory_allocated and _max_memory_allocated return 0 and query no
   driver whenever the resolved identity is not cuda or CUDA is not ready;
   only for cuda with CUDA ready do they return the driver's figure. *)
C7_ZeroUnlessCudaReady ==
    /\ Ran("_memory_allocated") =>
          IF Resolve(device) # s_cuda \/ ~cuda_is_available
          THEN ret = Return(PyInt(0)) /\ calls = <<>>
          ELSE calls # <<>> => ret = Return(PyInt(cuda_allocated))
    /\ Ran("_max_memory_allocated") =>
          IF Resolve(device) # s_cuda \/ ~cuda_is_available
          THEN ret = Return(PyInt(0)) /\ calls = <<>>
          ELSE calls # <<>> => ret = Return(PyInt(cuda_peak))

(* C8: is_turbo_model returns false without a configuration, false when the
   configuration has no is_turbo, and is_turbo's value otherwise; it never
   raises and leaves the configuration as it was. *)
C8_TurboFlag ==
    [][ op' = "is_turbo_model" =>
          /\ config' = config
          /\ ret' = Return(PyBool(
                       IF config = None THEN FALSE
                       ELSE IF "is_turbo" \notin config.attrs THEN FALSE
                       ELSE config.is_turbo)) ]_vars

\* a loaded turbo configuration, and the query answering true
C8_Witness ==
    /\ Ran("is_turbo_model")
    /\ config # None /\ "is_turbo" \in config.attrs /\ config.is_turbo
    /\ ret = Return(PyBool(TRUE))

(* C9: get_available_acestep_v15_models returns the names of the
   subdirectories of checkpoints/ that start with "acestep-v15-", each once,
   in ascending order, and nothing when checkpoints/ does not exist;
   get_available_checkpoints returns nothing when checkpoints/ is absent and
   its path alone otherwise. *)
C9_ScanSortedPrefixedDirs ==
    /\ Ran("get_available_acestep_v15_models") =>
          /\ ret.kind = "return" /\ ret.val.t = "list"
          /\ Elems(ret.val.v) = ModelDirs
          /\ Len(ret.val.v) = Cardinality(ModelDirs)
          /\ \A i, j \in 1..Len(ret.val.v) : i < j => LexBefore(ret.val.v[i], ret.val.v[j])
          /\ (~ckpt_exists => ret.val.v = <<>>)
    /\ Ran("get_available_checkpoints") =>
          ret = Return(PyList(
                  IF ~ckpt_exists THEN <<>>
                  ELSE IF project_root = <<"/">> THEN << <<"/">> \o s_checkpoints >>
                  ELSE << project_root \o <<"/">> \o s_checkpoints >>))

\* two model directories listed in code point order beside a prefixed file
C9_Witness ==
    /\ Ran("get_available_acestep_v15_models")
    /\ entries[n_turbo] = "file" /\ entries[n_base] = "dir" /\ entries[n_xl] = "dir"
    /\ ret = Return(PyList(<<n_xl, n_base>>))

(* C10: every query reflects the filesystem at the moment of the call: a
   model directory added just before a scan is in that scan, a removed one is
   not, and after checkpoints/ is created or deleted the queries say so,
   whatever an earlier query returned. *)
C10_NoCaching ==
    [][ /\ op' = "get_available_acestep_v15_models" =>
            /\ Elems(ret'.val.v) = ModelDirs
            /\ (op = "add entry" /\ arg.v \in ModelDirs => arg.v \in Elems(ret'.val.v))
            /\ (op = "remove entry" => arg.v \notin Elems(ret'.val.v))
            /\ (op = "rm -r checkpoints" => ret'.val.v = <<>>)
        /\ op' = "get_available_checkpoints" =>
            /\ (Len(ret'.val.v) = 1) = ckpt_exists
            /\ (Len(ret'.val.v) = 0) = ~ckpt_exists ]_vars

\* a scan that lists a directory the scan before it did not
C10_Witness ==
    /\ Ran("get_available_acestep_v15_models")
    /\ prev_models.kind = "return"
    /\ n_base \in Elems(ret.val.v) \ Elems(prev_models.val.v)
    /\ n_turbo \in Elems(prev_models.val.v) \ Elems(ret.val.v)

====
